---- MODULE Spec2Model ----
(***************************************************************************)
(* Model of the ponos Worker (src/src/worker.js): construction with option *)
(* validation, and the run loop that runs the task, classifies its outcome *)
(* through the promise handler chain, reports errors, calls done and       *)
(* retries after a delay.                                                  *)
(***************************************************************************)
EXTENDS Integers, Sequences, FiniteSets, TLC

(* ------------------------------ bounds --------------------------------- *)
\* attempts explored per Worker (the code has no ceiling)
MaxAttempts == 3
\* largest WORKER_MIN_RETRY_DELAY of the environment
MaxInitialDelay == 2
\* largest WORKER_MAX_RETRY_DELAY of the environment
MaxMaxDelay == 3
\* largest msTimeout number handed to the constructor
MaxTimeout == 1
\* longest queue name, in characters
MaxQueueLen == 5

(* --------------------------- JavaScript values ------------------------- *)
Undefined == [t |-> "undefined"]
Null == [t |-> "null"]
\* an object or function value (a callback, a logger, a job payload)
Obj == [t |-> "object"]
Bool(b) == [t |-> "boolean", v |-> b]
Num(n) == [t |-> "number", nan |-> FALSE, v |-> n]
NaN == [t |-> "number", nan |-> TRUE, v |-> 0]
Str(s) == [t |-> "string", s |-> s]

\* the characters strings are made of here
Digits == <<"0", "1", "2", "3", "4", "5", "6", "7", "8", "9">>
IsDigit(c) == \E i \in 1..Len(Digits) : Digits[i] = c
DigitVal(c) == (CHOOSE i \in 1..Len(Digits) : Digits[i] = c) - 1

\* decimal string of a natural number below 100
NatStr(n) == IF n < 10 THEN <<Digits[n + 1]>>
             ELSE <<Digits[(n \div 10) + 1], Digits[(n % 10) + 1]>>
\* decimal string of an integer
IntStr(n) == IF n < 0 THEN <<"-">> \o NatStr(0 - n) ELSE NatStr(n)

\* JavaScript truthiness, as `x || y` and `if (x)` use it
Truthy(v) ==
  CASE v.t = "undefined" -> FALSE
    [] v.t = "null" -> FALSE
    [] v.t = "boolean" -> v.v
    [] v.t = "number" -> ~v.nan /\ v.v # 0
    [] v.t = "string" -> Len(v.s) > 0
    [] OTHER -> TRUE

\* 101/exists: neither null nor undefined
\* (mutant: null counts as existing)
existsMutant(v) == v.t # "undefined"
exists(v) == v.t \notin {"undefined", "null"}

\* 101/is-number: a number that is not NaN
isNumber(v) == v.t = "number" /\ ~v.nan

\* value of a sequence of decimal digits
RECURSIVE DigitsValue(_)
DigitsValue(ds) ==
  IF ds = <<>> THEN 0
  ELSE 10 * DigitsValue(SubSeq(ds, 1, Len(ds) - 1)) + DigitVal(ds[Len(ds)])

\* length of the longest prefix of s made of digits
LeadingDigits(s) ==
  CHOOSE k \in 0..Len(s) :
    /\ \A j \in 1..k : IsDigit(s[j])
    /\ (k < Len(s) => ~IsDigit(s[k + 1]))

\* parseInt(string, 10): optional sign, then the longest run of digits; NaN if none
ParseIntStr(s) ==
  LET signed == Len(s) > 0 /\ s[1] \in {"-", "+"}
      body == IF signed THEN Tail(s) ELSE s
      k == LeadingDigits(body)
      n == DigitsValue(SubSeq(body, 1, k))
  IN IF k = 0 THEN NaN
     ELSE IF signed /\ s[1] = "-" THEN Num(0 - n) ELSE Num(n)

\* parseInt(v, 10): v is converted to a string first
parseInt(v) ==
  CASE v.t = "string" -> ParseIntStr(v.s)
    [] v.t = "number" -> IF v.nan THEN NaN ELSE ParseIntStr(IntStr(v.v))
    [] OTHER -> NaN

\* ToNumber of a value used as a delay (`Promise.delay(x)`, `x < y`, `x *= 2`)
ToNumber(v) ==
  CASE v.t = "number" -> v
    [] v.t = "string" ->
         IF Len(v.s) > 0 /\ LeadingDigits(v.s) = Len(v.s) THEN Num(DigitsValue(v.s))
         ELSE IF Len(v.s) = 0 THEN Num(0) ELSE NaN
    [] OTHER -> NaN

\* `a || b`
Or(a, b) == IF Truthy(a) THEN a ELSE b

(* ------------------------------- inputs -------------------------------- *)
\* values a required option may have
FieldVals == {Undefined, Null, Obj}
\* a job payload with a tid property
Job(t) == [t |-> "object", tid |-> t]
\* values of job.tid: a string, possibly empty
TidVals == {Str(<<"7">>), Str(<<>>)}
\* values of opts.job: missing, a payload without tid, a payload with one
JobVals == FieldVals \cup {Job(t) : t \in TidVals}
\* identifiers uuid() may return
RunUuids == {Str(<<"u", "1">>)}
Uuids == RunUuids \cup {Str(<<"u", "2">>)}
\* the characters of queue names, and the names: strings of them
QueueChars == {"a", "b", "c", "."}
QueueNames == UNION {[1..n -> QueueChars] : n \in 0..MaxQueueLen}
\* the queue of the Workers whose run loop is explored
RunQueue == <<"a", ".", "b">>
\* values of opts.msTimeout
TimeoutVals ==
  {Undefined, Str(<<"x">>), Str(<<"1", "x">>), Str(<<"-", "1">>)}
    \cup {Num(n) : n \in (0 - 1)..MaxTimeout}
    \cup {Str(IntStr(n)) : n \in 1..MaxTimeout}
\* values of opts.runNow
RunNowVals == {Undefined, Null, Bool(TRUE), Bool(FALSE)}

\* the argument of `new Worker(opts)`
AllOpts ==
  [done : FieldVals, job : JobVals, log : FieldVals, queue : FieldVals,
   task : FieldVals, msTimeout : TimeoutVals, runNow : RunNowVals]

\* process.env: each variable a string or unset
Envs ==
  [WORKER_TIMEOUT : {Undefined, Str(<<"1">>), Str(<<"x">>)},
   WORKER_MIN_RETRY_DELAY : {Undefined} \cup {Str(IntStr(n)) : n \in 2..MaxInitialDelay},
   WORKER_MAX_RETRY_DELAY : {Undefined} \cup {Str(IntStr(n)) : n \in 0..MaxMaxDelay},
   WORKER_MONITOR_DISABLED : {Undefined, Str(<<"1">>)}]

\* a property of err.data: missing ("absent"), a falsy value such as '' or 0
\* ("falsy"), a truthy value the error came with ("own"), or the value the
\* Worker put there: this.queue for queue, this.job for job ("worker")
PropVals == {"absent", "falsy", "own"}
\* err.data: missing ("absent"), a value that is not an object ("other"), or
\* an object with its properties queue and job
NoData == [kind |-> "absent", queue |-> "absent", job |-> "absent"]
EmptyData == [kind |-> "object", queue |-> "absent", job |-> "absent"]
DataVals ==
  {NoData, [kind |-> "other", queue |-> "absent", job |-> "absent"]}
    \cup [kind : {"object"}, queue : PropVals, job : PropVals]

\* errors a task or the done callback may raise: the error's type, the type
\* of the error in its `cause` property ("none" without one), its data and the
\* data of its cause
ErrorTypes == {"Error", "WorkerStopError", "TimeoutError"}
Errors ==
  [type : ErrorTypes, cause : {"none"} \cup ErrorTypes, data : {NoData},
   cdata : {NoData}]
\* errors that come with data of their own, on the error that is reported: the
\* error itself, or its cause
DataErrors ==
  {e \in [type : {"Error", "WorkerStopError"}, cause : {"none", "Error"},
          data : DataVals, cdata : DataVals] :
     IF e.cause = "none" THEN e.cdata = NoData ELSE e.data = NoData}
\* the error bluebird's .timeout() rejects with
TimedOut ==
  [type |-> "TimeoutError", cause |-> "none", data |-> NoData, cdata |-> NoData]
\* no error
NoError == [type |-> "none", cause |-> "none", data |-> NoData, cdata |-> NoData]
\* no error has entered the catch chain
NoThrown == [by |-> "none", err |-> NoError]

\* outcome of the task of one attempt
TaskOutcomes == {"ok", "timedout"} \cup ErrorTypes

VARIABLES
  env,          \* process.env
  opts,         \* the argument of the constructor call (Undefined before it)
  pc,           \* where the Worker is: see PCs
  attempt,      \* this.attempt
  retryDelay,   \* this.retryDelay
  msTimeout,    \* this.msTimeout
  runNow,       \* this.runNow
  raised,       \* what the task of the current attempt did ("pending" while it runs)
  trace,        \* handlers of the chain that ran in the current attempt
  taskCalls,    \* calls of this.task
  doneCalls,    \* calls of this.done
  reports,      \* calls of errorCat.report
  delays,       \* the delays handed to Promise.delay, in order
  tally,        \* per task outcome, the number of attempts that ended so
  timersCreated,  \* timers made by _createTimer
  timersStopped,  \* timers stopped by the finally handlers
  finallyRun,   \* finally handlers that ran
  tid,          \* this.tid
  clsTid,       \* the value 'tid' of the continuation-local context
  queue,        \* the characters of this.queue
  abandoned,    \* task calls that timed out and have not settled yet
  timerStops,   \* per timer created, in order, the calls of its stop()
  starts,       \* increments of the counter 'ponos'
  finishes,     \* increments of the counter 'ponos.finish'
  thrown,       \* the error that entered the catch chain last in the current
                \* attempt, and who raised it: task, timer, done, doneFatal
  reported,     \* the error errorCat.report got last in the current attempt
  tags          \* what the last call of _eventTags returned

vars ==
  <<env, opts, pc, attempt, retryDelay, msTimeout, runNow, raised, trace,
    taskCalls, doneCalls, reports, delays, tally, timersCreated, timersStopped,
    finallyRun, tid, clsTid, queue, tags, abandoned, timerStops, starts, finishes,
    thrown, reported>>

PCs == {"new", "failed", "idle", "task", "done", "doneFatal", "delay",
        "succeeded", "fatal", "rejected"}

\* the task of the current attempt has not settled
Pending == [res |-> "pending", type |-> "none", cause |-> "none"]
Settled(res, type, cause) == [res |-> res, type |-> type, cause |-> cause]

(* ----------------------------- constructor ----------------------------- *)
\* the required options, in the order the constructor checks them
fields == <<"done", "job", "log", "queue", "task">>

\* 101/defaults for one key: the default is taken when the option does not exist
defaults(v, d) == IF exists(v) THEN v ELSE d

\* opts.msTimeout after defaults(): the option, or WORKER_TIMEOUT || 0
DefaultedTimeout(o) == defaults(o.msTimeout, Or(env.WORKER_TIMEOUT, Num(0)))

\* opts.runNow after defaults(): the option, or true
\* (mutant: the default is false)
DefaultedRunNowMutant(o) == defaults(o.runNow, Bool(FALSE))
DefaultedRunNow(o) == defaults(o.runNow, Bool(TRUE))

\* the constructor throws: a required option does not exist, or the parsed
\* msTimeout is not a number, or it is negative
ConstructorThrows(o) ==
  \/ \E i \in 1..Len(fields) : ~exists(o[fields[i]])
  \/ ~isNumber(parseInt(DefaultedTimeout(o)))
  \/ parseInt(DefaultedTimeout(o)).v < 0

(* ----------------------------- _eventTags ------------------------------ *)
\* s.split('.'): the segments between the dots
RECURSIVE Split(_)
Split(s) ==
  IF \A i \in 1..Len(s) : s[i] # "." THEN <<s>>
  ELSE LET d == CHOOSE i \in 1..Len(s) :
                  s[i] = "." /\ \A j \in 1..(i - 1) : s[j] # "."
       IN <<SubSeq(s, 1, d - 1)>> \o Split(SubSeq(s, d + 1, Len(s)))

\* array.reverse()
Reverse(a) == [i \in 1..Len(a) |-> a[Len(a) + 1 - i]]

\* the token the reduce callback makes for index k - 1 of the reversed
\* segments: the segment itself, or the segment, a dot and the token before
\* (mutant: the token before, a dot and the segment)
RECURSIVE TokenAtMutant(_, _)
TokenAtMutant(ts, k) ==
  IF k = 1 THEN ts[1] ELSE TokenAtMutant(ts, k - 1) \o <<".">> \o ts[k]
RECURSIVE TokenAt(_, _)
TokenAt(ts, k) ==
  IF k = 1 THEN ts[1] ELSE ts[k] \o <<".">> \o TokenAt(ts, k - 1)

\* _eventTags(): tokens[k] is the tag token<k-1>
eventTags(q) ==
  LET ts == Reverse(Split(q))
  IN [tokens |-> [k \in 1..Len(ts) |-> TokenAt(ts, k)], queue |-> q]

\* no call of _eventTags yet
NoTags == [tokens |-> <<>>, queue |-> <<>>]

\* monitoring is on unless WORKER_MONITOR_DISABLED is set
Monitoring == ~Truthy(env.WORKER_MONITOR_DISABLED)

\* k calls of _incMonitor for a counter that stands at n
incMonitor(n, k) == IF Monitoring THEN n + k ELSE n

\* the synchronous part of run(): the timer is created, the attempt counter is
\* incremented and the task is called in a context whose 'tid' is t (this.tid)
StartAttempt(t) ==
  /\ tags' = eventTags(queue)
  /\ clsTid' = t
  /\ starts' = incMonitor(starts, 1)
  /\ thrown' = NoThrown
  /\ reported' = NoError
  /\ timersCreated' = IF Monitoring THEN timersCreated + 1 ELSE timersCreated
  /\ timerStops' = IF Monitoring THEN Append(timerStops, 0) ELSE timerStops
  /\ attempt' = attempt + 1
  /\ taskCalls' = taskCalls + 1
  /\ raised' = Pending
  /\ trace' = <<>>
  /\ pc' = "task"

\* opts.job.tid (undefined when the payload has no such property)
JobTid(job) == IF "tid" \in DOMAIN job THEN job.tid ELSE Undefined

\* this.tid = opts.job.tid || uuid(), u being what uuid() returns
\* (mutant: the identifier is always generated)
TidOfMutant(job, u) == u
TidOf(job, u) == Or(JobTid(job), u)

\* new Worker(o), u being what uuid() returns if called
Construct(o, u) ==
  /\ pc = "new"
  /\ opts' = o
  /\ IF ConstructorThrows(o)
     THEN /\ pc' = "failed"
          /\ UNCHANGED <<attempt, retryDelay, msTimeout, runNow, raised, trace,
                         taskCalls, timersCreated, timerStops, starts, tid, clsTid, tags,
                         thrown, reported>>
     ELSE /\ tid' = TidOf(o.job, u)
          /\ retryDelay' = ToNumber(Or(env.WORKER_MIN_RETRY_DELAY, Num(1))).v
          /\ msTimeout' = parseInt(DefaultedTimeout(o)).v
          /\ runNow' = Truthy(DefaultedRunNow(o))
          /\ IF Truthy(DefaultedRunNow(o))
             THEN StartAttempt(TidOf(o.job, u))
             ELSE /\ pc' = "idle"
                  /\ UNCHANGED <<attempt, raised, trace, taskCalls, timersCreated,
                                 timerStops, starts, thrown, reported,
                                 clsTid, tags>>
  /\ UNCHANGED <<env, queue, abandoned, doneCalls, reports, delays, tally, timersStopped,
                 finallyRun, finishes>>

\* worker.run() called by the owner of a Worker made with runNow false; the
\* run loop of a Worker is started once
Run ==
  /\ pc = "idle"
  /\ StartAttempt(tid)
  /\ UNCHANGED <<env, queue, abandoned, tid, opts, retryDelay, msTimeout, runNow, doneCalls, reports,
                 delays, tally, timersStopped, finallyRun, finishes>>

(* ------------------------- the handler chain --------------------------- *)
\* .catch((err) => ...) of lines 164-178: the error handed on is err.cause
\* when the error has one
isObject(d) == d.kind = "object"

\* !v for a property v of err.data
Not(v) == v \in {"absent", "falsy"}

\* lines 168-176: data becomes {} unless it is an object, then queue and job
\* are set where !err.data.queue and !err.data.job
FillData(d) ==
  LET o == IF isObject(d) THEN d ELSE EmptyData
  IN [o EXCEPT !.queue = IF Not(@) THEN "worker" ELSE @,
               !.job = IF Not(@) THEN "worker" ELSE @]

Normalize(err) ==
  IF err.cause # "none"
  THEN [type |-> err.cause, cause |-> "none", data |-> FillData(err.cdata),
        cdata |-> NoData]
  ELSE [err EXCEPT !.data = FillData(@)]

\* the predicates of .catch(TimeoutError, ...) and .catch(WorkerStopError, ...)
IsTimeoutError(err) == err.type = "TimeoutError"
\* (mutant: a TimeoutError is taken for fatal too)
IsWorkerStopErrorMutant(err) == err.type \in {"WorkerStopError", "TimeoutError"}
IsWorkerStopError(err) == err.type = "WorkerStopError"

\* .catch(WorkerStopError, ...): the error is reported and done is called
FatalHandler(err, tr) ==
  /\ trace' = Append(tr, "fatal")
  /\ reported' = err
  /\ reports' = reports + 1
  /\ doneCalls' = doneCalls + 1
  /\ pc' = "doneFatal"
  /\ UNCHANGED delays

\* every handler that runs calls _incMonitor('ponos.finish') once: the actions
\* below count one increment per handler they add to the trace

\* the last .catch: the error is reported and Promise.delay(this.retryDelay) starts
RetryHandler(err, tr) ==
  /\ trace' = Append(tr, "retry")
  /\ reported' = err
  /\ reports' = reports + 1
  /\ delays' = Append(delays, retryDelay)
  /\ pc' = "delay"
  /\ UNCHANGED doneCalls

\* the last .catch has no predicate: it takes every error
\* (mutant: it leaves a TimeoutError alone)
CatchesAnyMutant(err) == err.type # "TimeoutError"
CatchesAny(err) == err.type \in ErrorTypes

\* an error no handler took rejects the promise of run()
Escapes(tr) ==
  /\ trace' = tr
  /\ pc' = "rejected"
  /\ UNCHANGED <<reports, doneCalls, delays, reported>>

\* the last .catch of the chain
LastCatch(err, tr) ==
  IF CatchesAny(err) THEN RetryHandler(err, tr) ELSE Escapes(tr)

\* a rejection of the promise of .then(...) goes down the whole catch chain
Rejected(err) ==
  LET tr == IF IsTimeoutError(err) THEN Append(trace, "timeout") ELSE trace
  IN IF IsWorkerStopError(Normalize(err)) THEN FatalHandler(Normalize(err), tr)
     ELSE LastCatch(Normalize(err), tr)

\* the task promise is fulfilled: .then(...) calls done
TaskSucceeds ==
  /\ pc = "task"
  /\ raised' = Settled("ok", "none", "none")
  /\ tally' = [tally EXCEPT !["ok"] = @ + 1]
  /\ trace' = Append(trace, "success")
  /\ finishes' = incMonitor(finishes, 1)
  /\ doneCalls' = doneCalls + 1
  /\ pc' = "done"
  /\ UNCHANGED <<thrown, reported, env, queue, abandoned, tags, tid, clsTid, opts, attempt, retryDelay, msTimeout, runNow, taskCalls,
                 reports, delays, timersCreated, timerStops, starts, timersStopped, finallyRun>>

\* the task throws err or its promise is rejected with err
TaskFails(err) ==
  /\ pc = "task"
  /\ raised' = Settled("raised", err.type, err.cause)
  /\ thrown' = [by |-> "task", err |-> err]
  /\ tally' = [tally EXCEPT ![err.type] = @ + 1]
  /\ Rejected(err)
  /\ finishes' = incMonitor(finishes, Len(trace') - Len(trace))
  /\ UNCHANGED <<env, queue, abandoned, tags, tid, clsTid, opts, attempt, retryDelay, msTimeout, runNow, taskCalls,
                 timersCreated, timerStops, starts, timersStopped, finallyRun>>

\* .timeout(this.msTimeout) rejects first; it is installed when msTimeout is not 0
TaskTimesOut ==
  /\ pc = "task"
  /\ msTimeout # 0
  /\ raised' = Settled("timedout", TimedOut.type, TimedOut.cause)
  /\ thrown' = [by |-> "timer", err |-> TimedOut]
  /\ tally' = [tally EXCEPT !["timedout"] = @ + 1]
  /\ Rejected(TimedOut)
  /\ finishes' = incMonitor(finishes, Len(trace') - Len(trace))
  /\ abandoned' = abandoned + 1
  /\ UNCHANGED <<env, queue, tags, tid, clsTid, opts, attempt, retryDelay, msTimeout, runNow, taskCalls,
                 timersCreated, timerStops, starts, timersStopped, finallyRun>>

\* what a task that was timed out may still do: be fulfilled, or raise
LateOutcomes == {"ok"} \cup ErrorTypes

\* a promise takes an outcome only while it is pending: the promise
\* .timeout() returned is settled once the timer has rejected it
\* (mutant: a settled promise takes a later outcome too)
AdoptsMutant(state) == TRUE
Adopts(state) == state = "pending"

\* the task of an attempt that timed out settles with out: the promise of
\* .timeout(), which the chain follows, has been rejected already
LateSettle(out) ==
  /\ abandoned > 0
  /\ abandoned' = abandoned - 1
  /\ IF Adopts("rejected")
     THEN IF out = "ok"
          THEN doneCalls' = doneCalls + 1 /\ UNCHANGED reports
          ELSE reports' = reports + 1 /\ UNCHANGED doneCalls
     ELSE UNCHANGED <<doneCalls, reports>>
  /\ UNCHANGED <<thrown, reported, env, queue, tags, tid, clsTid, opts, pc, attempt, retryDelay, msTimeout,
                 runNow, raised, trace, taskCalls, delays, tally, timersCreated, timerStops, starts,
                 timersStopped, finallyRun, finishes>>

\* this.done() returns, or the promise it returned is fulfilled
DoneReturns ==
  /\ pc \in {"done", "doneFatal"}
  /\ pc' = IF pc = "done" THEN "succeeded" ELSE "fatal"
  /\ UNCHANGED <<thrown, reported, env, queue, abandoned, tags, tid, clsTid, opts, attempt, retryDelay, msTimeout, runNow, raised, trace,
                 taskCalls, doneCalls, reports, delays, tally, timersCreated, timerStops, starts,
                 timersStopped, finallyRun, finishes>>

\* this.done() throws err or returns a promise rejected with err: called by
\* .then(...), the error goes down the catch chain; called by the
\* WorkerStopError handler, it goes to the last .catch
DoneFails(err) ==
  /\ pc \in {"done", "doneFatal"}
  /\ thrown' = [by |-> pc, err |-> err]
  /\ IF pc = "done" THEN Rejected(err) ELSE LastCatch(err, trace)
  /\ finishes' = incMonitor(finishes, Len(trace') - Len(trace))
  /\ UNCHANGED <<env, queue, abandoned, tags, tid, clsTid, opts, attempt, retryDelay, msTimeout, runNow, raised,
                 taskCalls, tally, timersCreated, timerStops, starts, timersStopped, finallyRun>>

(* ------------------------------ the retry ------------------------------ *)
\* parseInt(process.env.WORKER_MAX_RETRY_DELAY) || 0
MaxRetryDelay == Or(parseInt(env.WORKER_MAX_RETRY_DELAY), Num(0)).v

\* the delay after a retry: doubled while it is below the maximum
NextDelay(d, max) == IF d < max THEN d * 2 ELSE d

\* Promise.delay is over: the delay is updated and run() is called again
DelayElapsed ==
  /\ pc = "delay"
  /\ attempt < MaxAttempts
  /\ retryDelay' = NextDelay(retryDelay, MaxRetryDelay)
  /\ StartAttempt(tid)
  /\ UNCHANGED <<env, queue, abandoned, tid, opts, msTimeout, runNow, doneCalls, reports, delays, tally,
                 timersStopped, finallyRun, finishes>>

\* the promise the catch chain of a run() call ends in is settled when the
\* Worker is: after a retry it follows the promise of the next run() call
\* (mutant: it is settled when the attempt of the call has been handled)
ChainEndedMutant(p) == p \in {"succeeded", "fatal", "rejected", "delay"}
ChainEnded(p) == p \in {"succeeded", "fatal", "rejected"}

\* the timer the finally handler of the k-th run() call stops: the one that
\* call created (mutant: the first timer)
TimerOfCallMutant(k) == 1
TimerOfCall(k) == k

\* .finally(...) of one run() call, once the promise of that call is settled:
\* the calls settle innermost first after the chain ended
Finally ==
  /\ ChainEnded(pc)
  /\ finallyRun < attempt
  /\ finallyRun' = finallyRun + 1
  /\ timersStopped' = IF Monitoring THEN timersStopped + 1 ELSE timersStopped
  /\ timerStops' = IF Monitoring
                   THEN [timerStops EXCEPT ![TimerOfCall(attempt - finallyRun)] = @ + 1]
                   ELSE timerStops
  /\ UNCHANGED <<thrown, reported, env, queue, abandoned, tags, tid, clsTid, opts, pc, attempt, retryDelay, msTimeout, runNow, raised,
                 trace, taskCalls, doneCalls, reports, delays, tally, timersCreated, starts, finishes>>

\* the promise the first call of run() returned: settled once the chain has
\* ended and every finally handler has run
RunPromise ==
  IF pc \in {"new", "failed", "idle"} THEN "none"
  ELSE IF pc \notin {"succeeded", "fatal", "rejected"} \/ finallyRun < attempt
       THEN "pending"
  ELSE IF pc = "rejected" THEN "rejected" ELSE "fulfilled"

(* --------------------------- specifications ---------------------------- *)
\* options of the Workers whose run loop is explored
RunOpts ==
  {o \in AllOpts :
     /\ \A i \in 1..Len(fields) : o[fields[i]] = Obj
     /\ o.msTimeout = Undefined
     /\ o.runNow \in {Undefined, Bool(FALSE)}}

InitWith(E, Q) ==
  /\ env \in E
  /\ queue \in Q
  /\ tags = NoTags
  /\ abandoned = 0
  /\ timerStops = <<>>
  /\ starts = 0
  /\ finishes = 0
  /\ thrown = NoThrown
  /\ reported = NoError
  /\ opts = Undefined
  /\ pc = "new"
  /\ attempt = 0
  /\ retryDelay = 0
  /\ msTimeout = 0
  /\ runNow = FALSE
  /\ raised = Pending
  /\ trace = <<>>
  /\ taskCalls = 0
  /\ doneCalls = 0
  /\ reports = 0
  /\ delays = <<>>
  /\ tally = [k \in TaskOutcomes |-> 0]
  /\ timersCreated = 0
  /\ timersStopped = 0
  /\ finallyRun = 0
  /\ tid = Undefined
  /\ clsTid = Undefined

Init == InitWith(Envs, {RunQueue})

\* the steps of a constructed Worker whose task and done raise errors of E
LoopWith(E) ==
  \/ Run
  \/ TaskSucceeds
  \/ \E err \in E : TaskFails(err)
  \/ TaskTimesOut
  \/ \E out \in LateOutcomes : LateSettle(out)
  \/ DoneReturns
  \/ \E err \in E : DoneFails(err)
  \/ DelayElapsed
  \/ Finally

Loop == LoopWith(Errors)

Next ==
  \/ \E o \in RunOpts, u \in RunUuids : Construct(o, u)
  \/ Loop

Spec == Init /\ [][Next]_vars

\* the constructor alone, over every combination of options
NextConstruct == pc = "new" /\ \E o \in AllOpts, u \in RunUuids : Construct(o, u)

\* the constructor reads WORKER_TIMEOUT and WORKER_MIN_RETRY_DELAY only
InitConstruct ==
  /\ Init
  /\ env.WORKER_MAX_RETRY_DELAY = Undefined
  /\ env.WORKER_MONITOR_DISABLED = Undefined

SpecConstruct == InitConstruct /\ [][NextConstruct]_vars

\* Workers made for jobs with and without a tid, in one environment for the
\* delays and the monitoring
TidOpts ==
  {o \in AllOpts :
     /\ \A f \in {"done", "log", "queue", "task"} : o[f] = Obj
     /\ exists(o.job)
     /\ o.msTimeout = Undefined
     /\ o.runNow \in {Undefined, Bool(FALSE)}}

InitTid ==
  /\ Init
  /\ env.WORKER_TIMEOUT # Str(<<"x">>)
  /\ env.WORKER_MIN_RETRY_DELAY = Undefined
  /\ env.WORKER_MAX_RETRY_DELAY = Undefined
  /\ env.WORKER_MONITOR_DISABLED = Undefined

NextTid ==
  \/ \E o \in TidOpts, u \in Uuids : Construct(o, u)
  \/ Loop

SpecTid == InitTid /\ [][NextTid]_vars

\* Workers for every queue name, in the environment without settings: the
\* constructor starts the first attempt, which computes the tags
InitTags == InitWith({e \in Envs : \A k \in DOMAIN e : e[k] = Undefined}, QueueNames)

NextTags == pc = "new" /\ \E o \in RunOpts, u \in RunUuids : Construct(o, u)

SpecTags == InitTags /\ [][NextTags]_vars

\* Workers whose task and done raise errors with data, in the environments
\* that differ in the timeout only
InitData ==
  /\ Init
  /\ env.WORKER_TIMEOUT # Str(<<"x">>)
  /\ env.WORKER_MIN_RETRY_DELAY = Undefined
  /\ env.WORKER_MAX_RETRY_DELAY = Undefined
  /\ env.WORKER_MONITOR_DISABLED = Undefined

NextData ==
  \/ \E o \in RunOpts, u \in RunUuids : Construct(o, u)
  \/ LoopWith(DataErrors)

SpecData == InitData /\ [][NextData]_vars

TypeOK ==
  /\ pc \in PCs
  /\ attempt \in 0..MaxAttempts
  /\ taskCalls = attempt
  /\ retryDelay \in Nat
  /\ msTimeout \in Nat

(* ------------------------------- claims -------------------------------- *)
\* handler h ran in the current attempt
Ran(h) == \E i \in 1..Len(trace) : trace[i] = h

\* the Worker was constructed
Constructed == pc \notin {"new", "failed"}

\* the retry delay the Worker starts with: WORKER_MIN_RETRY_DELAY, or 1
InitialDelay ==
  IF env.WORKER_MIN_RETRY_DELAY = Undefined THEN 1
  ELSE DigitsValue(env.WORKER_MIN_RETRY_DELAY.s)

\* the configured maximum retry delay: WORKER_MAX_RETRY_DELAY, or 0 when unset
ConfiguredMax ==
  IF env.WORKER_MAX_RETRY_DELAY = Undefined THEN 0
  ELSE DigitsValue(env.WORKER_MAX_RETRY_DELAY.s)

Min(a, b) == IF a < b THEN a ELSE b

\* C1: done is invoked at most once in the Worker's lifetime, whatever the task
\* and done itself do, and exactly once as soon as an attempt was classified
\* Success or Fatal.
C1_DoneExactlyOnce ==
  /\ doneCalls <= 1
  /\ (Ran("success") \/ Ran("fatal")) => doneCalls = 1

\* C2: once the task of attempt n has failed with a WorkerStopError, that attempt
\* is the last one (the counter stays at n), the error is reported once and done
\* is called once in it (the fatal handler alone ran), and no retry delay starts.
C2_FatalEndsWorker ==
  tally["WorkerStopError"] > 0 =>
    /\ raised.res = "raised" /\ raised.type = "WorkerStopError"
    /\ trace = <<"fatal">>
    /\ pc \in {"doneFatal", "fatal"}

\* C3: when the task raised a generic error in the first K attempts and succeeds
\* in attempt K+1, done is invoked exactly once, after K+1 attempts, with K
\* reports and K retry delays.
C3_KFailuresThenSuccess ==
  (raised.res = "ok" /\ tally["Error"] = attempt - 1) =>
    /\ doneCalls = 1
    /\ reports = attempt - 1
    /\ Len(delays) = attempt - 1
    /\ pc \in {"done", "succeeded"}

\* C4: with a positive maximum and initial <= maximum, the delay waited before
\* attempt i+1 is min(initial * 2^(i-1), maximum), and the retry delay never
\* exceeds the maximum.
C4_DelayCapped ==
  (Constructed /\ ConfiguredMax > 0 /\ InitialDelay <= ConfiguredMax) =>
    /\ retryDelay <= ConfiguredMax
    /\ \A i \in 1..Len(delays) :
         delays[i] = Min(InitialDelay * 2 ^ (i - 1), ConfiguredMax)

\* C5: with the maximum 0 or not configured, the delay waited before attempt i+1
\* is initial * 2^(i-1).
C5_DelayDoublesUncapped ==
  (Constructed /\ ConfiguredMax = 0) =>
    \A i \in 1..Len(delays) : delays[i] = InitialDelay * 2 ^ (i - 1)

\* C6: an attempt that timed out (msTimeout positive) is classified Timeout and
\* not Fatal: done is not called in it, the error is reported once (the timeout
\* handler, then the retry handler ran), the current retry delay is waited, and
\* the one step of the Worker that follows (the abandoned task settling is not
\* one) updates the delay as the retry does (doubled while below the maximum)
\* and starts the next attempt.
C6_TimeoutRetried ==
  /\ [](raised.res = "timedout" =>
          /\ msTimeout > 0
          /\ trace = <<"timeout", "retry">>
          /\ pc = "delay"
          /\ delays[Len(delays)] = retryDelay
          /\ (attempt < MaxAttempts => ENABLED DelayElapsed))
  /\ [][(raised.res = "timedout" /\ abandoned' = abandoned) =>
          /\ attempt' = attempt + 1
          /\ pc' = "task"
          /\ doneCalls' = doneCalls
          /\ reports' = reports
          /\ retryDelay' = IF retryDelay < ConfiguredMax THEN 2 * retryDelay
                           ELSE retryDelay]_vars

\* a timed out attempt was followed by a next attempt
C6_Witness == tally["timedout"] >= 1 /\ attempt >= 2 /\ pc = "task"

\* C7: when the constructor returns, one attempt has been started (counter 1,
\* task called once) if runNow is true or defaulted, and none if it is false.
C7_RunNowStartsOneAttempt ==
  Constructed =>
    IF opts.runNow \in {Undefined, Null, Bool(TRUE)}
    THEN attempt = 1 /\ taskCalls = 1 /\ pc = "task"
    ELSE attempt = 0 /\ taskCalls = 0 /\ pc = "idle"

\* a Worker constructed without the runNow option has started its first attempt
C7_Witness == pc = "task" /\ opts.runNow = Undefined /\ attempt = 1

\* msTimeout as the constructor parses it: the option, or WORKER_TIMEOUT, or 0
C8_Timeout ==
  IF opts.msTimeout # Undefined THEN opts.msTimeout
  ELSE IF env.WORKER_TIMEOUT # Undefined THEN env.WORKER_TIMEOUT ELSE Num(0)

C9_AttemptsSequential ==
  [][attempt' = attempt + 1 =>
       /\ ~Ran("success") /\ ~Ran("fatal")
       /\ (attempt > 0 => pc = "delay" /\ Ran("retry"))]_vars

\* C10: while the task has failed with a non-fatal error in every attempt, done
\* is not invoked and the Worker is in no terminal state.
C10_NonFatalNeverEnds ==
  (tally["ok"] = 0 /\ tally["WorkerStopError"] = 0) =>
    /\ doneCalls = 0
    /\ pc \notin {"done", "doneFatal", "succeeded", "fatal"}

\* C11: whatever the task and done raise, the promise of run() is never
\* rejected; it is pending while an attempt runs, done is awaited or a retry
\* delay is waited, and it is fulfilled only after an attempt classified
\* Success or Fatal.
C11_RunNeverRejects ==
  /\ RunPromise # "rejected"
  /\ pc # "rejected"
  /\ pc \in {"task", "done", "doneFatal", "delay"} => RunPromise = "pending"
  /\ RunPromise = "fulfilled" => (Ran("success") \/ Ran("fatal"))

\* the promise of run() is fulfilled after errors were raised and retried
C11_Witness == RunPromise = "fulfilled" /\ attempt >= 2 /\ reports >= 2

\* C12: tid is job.tid when the job supplies one (a non-empty string) and an
\* identifier uuid() generated otherwise; it never changes after construction,
\* and every attempt runs with the context value 'tid' equal to it.
C12_TidStable ==
  /\ [](Constructed =>
          /\ IF "tid" \in DOMAIN opts.job /\ opts.job.tid # Str(<<>>)
             THEN tid = opts.job.tid
             ELSE tid \in Uuids
          /\ (attempt >= 1 => clsTid = tid))
  /\ [][Constructed => tid' = tid]_vars

\* a later attempt of a Worker whose job supplied the tid
C12_Witness ==
  pc = "task" /\ attempt >= 2 /\ tid = Str(<<"7">>) /\ clsTid = Str(<<"7">>)

\* number of dots among the first k characters of q
RECURSIVE DotsIn(_, _)
DotsIn(q, k) ==
  IF k = 0 THEN 0 ELSE DotsIn(q, k - 1) + (IF q[k] = "." THEN 1 ELSE 0)

\* what follows the d-th dot of q (all of q for d = 0)
AfterDot(q, d) ==
  IF d = 0 THEN q
  ELSE LET p == CHOOSE i \in 1..Len(q) : q[i] = "." /\ DotsIn(q, i) = d
       IN SubSeq(q, p + 1, Len(q))

Classified == trace[IF trace[1] = "timeout" THEN 2 ELSE 1]

\* C14: an attempt whose task raised an error is classified by the type of that
\* error: Fatal when it is a WorkerStopError, with or without a cause, and
\* retried when it is of any other type, also with a fatal cause.
C14_ClassifiedByRaisedType ==
  raised.res = "raised" =>
    Classified = (IF raised.type = "WorkerStopError" THEN "fatal" ELSE "retry")

\* C15: the task of an attempt that timed out is not cancelled: it may settle
\* later in any way, also while a later attempt runs, and that settlement
\* calls neither done nor the error sink, emits nothing, starts no delay and
\* no attempt, and leaves the attempt counter and the retry delay alone.
C15_LateOutcomeDisregarded ==
  /\ [](abandoned > 0 => \A out \in LateOutcomes : ENABLED LateSettle(out))
  /\ [][abandoned' < abandoned =>
         UNCHANGED <<doneCalls, reports, delays, tally, trace, taskCalls, attempt,
                     retryDelay, pc, raised, timersCreated, timersStopped>>]_vars

\* the task of an earlier attempt settled while a later attempt runs
C15_Witness ==
  /\ pc = "task"
  /\ attempt >= 2
  /\ tally["timedout"] >= 1
  /\ abandoned < tally["timedout"]

\* the Worker has left Running, for Succeeded or for Fatal
Terminal == pc \in {"succeeded", "fatal"}

C17_AllBeforeNext ==
  [][(attempt' = attempt + 1 /\ attempt >= 1) =>
       /\ Ran("retry")
       /\ reports >= attempt
       /\ Monitoring =>
            /\ starts = attempt
            /\ finishes >= attempt
            /\ timerStops[attempt] = 1]_vars

\* C17, amended: when attempt N+1 begins, the start counter, the finish counter
\* and the error report of attempt N have been emitted, and the timer created
\* for attempt N is still running: a timer is stopped only after the Worker
\* has become Succeeded or Fatal.
C17_EmissionsBeforeNext ==
  /\ [](\A i \in 1..Len(timerStops) : timerStops[i] > 0 => Terminal)
  /\ [][(attempt' = attempt + 1 /\ attempt >= 1) =>
          /\ Ran("retry")
          /\ reports >= attempt
          /\ Monitoring =>
               /\ starts = attempt
               /\ finishes >= attempt
               /\ timerStops[attempt] = 0]_vars

\* attempt 2 runs after the counters and the report of attempt 1, with the
\* timer of attempt 1 not stopped
C17_Witness ==
  /\ Monitoring
  /\ pc = "task"
  /\ attempt = 2
  /\ starts = 2
  /\ finishes >= 1
  /\ reports >= 1
  /\ timerStops = <<0, 0>>

\* C19: the timeout handler runs in an attempt (timeout log, 'timeout-error'
\* counter) exactly when the timer of .timeout() fired before the task settled,
\* which needs a positive msTimeout; with msTimeout 0 it never runs and a
\* pending task cannot be timed out.
C19_TimeoutIffElapsed ==
  /\ Ran("timeout") <=> raised.res = "timedout"
  /\ raised.res = "timedout" => msTimeout > 0
  /\ (Constructed /\ msTimeout = 0) => ~Ran("timeout") /\ ~ENABLED TaskTimesOut

\* the error the normalize handler hands on for the error that was raised:
\* its cause when it has one, else the error itself
Unwrapped ==
  IF thrown.err.cause # "none"
  THEN [type |-> thrown.err.cause, data |-> thrown.err.cdata]
  ELSE [type |-> thrown.err.type, data |-> thrown.err.data]

\* a property of data that is set only when it is absent
FilledIfAbsent(v) == IF v = "absent" THEN "worker" ELSE v

\* C18: after a failure that is retried, the error the sink got is the raised
\* error, or its cause, with data.queue and data.job set to the Worker's where
\* they were absent and every value the error had for data, data.queue and
\* data.job as it was.
C18_DataFilledOnlyWhenAbsent ==
  (pc = "delay" /\ thrown.by # "none") =>
    /\ reported.type = Unwrapped.type
    /\ reported.data =
         IF Unwrapped.data.kind = "other" THEN Unwrapped.data
         ELSE [kind |-> "object",
               queue |-> FilledIfAbsent(Unwrapped.data.queue),
               job |-> FilledIfAbsent(Unwrapped.data.job)]

\* C20: when done raised a non-fatal error after the task succeeded, the retry
\* handler ran: the error is reported, the current retry delay is waited, and
\* the step after it updates the delay and runs the task in a new attempt.
C20_DoneFailureRetried ==
  /\ []((thrown.by = "done" /\ thrown.err.type # "WorkerStopError") =>
          /\ pc = "delay"
          /\ trace[Len(trace)] = "retry"
          /\ reported.type # "none"
          /\ delays # <<>> /\ delays[Len(delays)] = retryDelay
          /\ attempt < MaxAttempts => ENABLED DelayElapsed)
  /\ [][(thrown.by = "done" /\ thrown.err.type # "WorkerStopError"
            /\ thrown' # thrown) =>
          /\ attempt' = attempt + 1
          /\ pc' = "task"
          /\ retryDelay' \in {retryDelay, 2 * retryDelay}]_vars

====
